---- MODULE Spec2Model ----
(***************************************************************************)
(* gsheet-colour-by-value: value -> style derivation for spreadsheet       *)
(* cells.  The discrete pipeline (colour-by-value.js: randomColour,        *)
(* randomFormat) picks palette colours and emphasis from MD5 digest bytes; *)
(* the continuous pipeline (generateColourFromValue and its callers) picks *)
(* HSL colours from a rolling 32-bit hash.  The spreadsheet utility        *)
(* functions (colourCellByValue, applyConditionalFormatting, deleteSheet,  *)
(* ...) and the custom functions that wrap them work on named sheets.      *)
(*                                                                         *)
(* JavaScript strings are TLA+ strings; arrays are 1-based sequences, so   *)
(* the JavaScript index k is the TLA+ index k + 1.                         *)
(***************************************************************************)
EXTENDS Integers, Sequences, FiniteSets, TLC

(***************************************************************************)
(* Bounds of the model.                                                    *)
(***************************************************************************)
\* how many times one value is derived in a row
MaxCalls == 2

\* the cells of the sheet
NCells == 2

\* the edits of the user
MaxEdits == 1

\* the calls of functions from the sheet
MaxResults == 1

\* the longest string over HashAlphabet given to the rolling hash
MaxLen == 2

(***************************************************************************)
(* JavaScript values.  A value is a record: t is the type, s the payload   *)
(* of a string, n the payload of a number (an integer here) or of a        *)
(* boolean (0 / 1).                                                        *)
(***************************************************************************)
Null == [t |-> "null", s |-> "", n |-> 0]

Undefined == [t |-> "undefined", s |-> "", n |-> 0]

Str(s) == [t |-> "string", s |-> s, n |-> 0]

Num(n) == [t |-> "number", s |-> "", n |-> n]

Bool(b) == [t |-> "boolean", s |-> "", n |-> IF b THEN 1 ELSE 0]

\* a plain object, {}
Obj == [t |-> "object", s |-> "", n |-> 0]

\* String.prototype.charCodeAt for the printable ASCII characters (the
\* backquote, which a TLA+ string cannot hold, is left out)
CharCode ==
  (" " :> 32) @@ ("!" :> 33) @@ ("\"" :> 34) @@ ("#" :> 35) @@ ("$" :> 36) @@ ("%" :> 37) @@
  ("&" :> 38) @@ ("'" :> 39) @@ ("(" :> 40) @@ (")" :> 41) @@ ("*" :> 42) @@ ("+" :> 43) @@
  ("," :> 44) @@ ("-" :> 45) @@ ("." :> 46) @@ ("/" :> 47) @@ ("0" :> 48) @@ ("1" :> 49) @@
  ("2" :> 50) @@ ("3" :> 51) @@ ("4" :> 52) @@ ("5" :> 53) @@ ("6" :> 54) @@ ("7" :> 55) @@
  ("8" :> 56) @@ ("9" :> 57) @@ (":" :> 58) @@ (";" :> 59) @@ ("<" :> 60) @@ ("=" :> 61) @@
  (">" :> 62) @@ ("?" :> 63) @@ ("@" :> 64) @@ ("A" :> 65) @@ ("B" :> 66) @@ ("C" :> 67) @@
  ("D" :> 68) @@ ("E" :> 69) @@ ("F" :> 70) @@ ("G" :> 71) @@ ("H" :> 72) @@ ("I" :> 73) @@
  ("J" :> 74) @@ ("K" :> 75) @@ ("L" :> 76) @@ ("M" :> 77) @@ ("N" :> 78) @@ ("O" :> 79) @@
  ("P" :> 80) @@ ("Q" :> 81) @@ ("R" :> 82) @@ ("S" :> 83) @@ ("T" :> 84) @@ ("U" :> 85) @@
  ("V" :> 86) @@ ("W" :> 87) @@ ("X" :> 88) @@ ("Y" :> 89) @@ ("Z" :> 90) @@ ("[" :> 91) @@
  ("\\" :> 92) @@ ("]" :> 93) @@ ("^" :> 94) @@ ("_" :> 95) @@ ("a" :> 97) @@
  ("b" :> 98) @@ ("c" :> 99) @@ ("d" :> 100) @@ ("e" :> 101) @@ ("f" :> 102) @@ ("g" :> 103) @@
  ("h" :> 104) @@ ("i" :> 105) @@ ("j" :> 106) @@ ("k" :> 107) @@ ("l" :> 108) @@ ("m" :> 109) @@
  ("n" :> 110) @@ ("o" :> 111) @@ ("p" :> 112) @@ ("q" :> 113) @@ ("r" :> 114) @@ ("s" :> 115) @@
  ("t" :> 116) @@ ("u" :> 117) @@ ("v" :> 118) @@ ("w" :> 119) @@ ("x" :> 120) @@ ("y" :> 121) @@
  ("z" :> 122) @@ ("{" :> 123) @@ ("|" :> 124) @@ ("}" :> 125) @@ ("~" :> 126)

Digit == <<"0", "1", "2", "3", "4", "5", "6", "7", "8", "9">>

\* the decimal form of a natural number
RECURSIVE NatToString(_)
NatToString(n) ==
  IF n < 10 THEN Digit[n + 1]
  ELSE NatToString(n \div 10) \o Digit[(n % 10) + 1]

\* the decimal form of an integer, as a template literal or String() prints it
IntToString(n) == IF n < 0 THEN "-" \o NatToString(-n) ELSE NatToString(n)

\* String(value): the canonical string form of a value
String(value) ==
  CASE value.t = "string"    -> value.s
    [] value.t = "number"    -> IntToString(value.n)
    [] value.t = "boolean"   -> IF value.n = 1 THEN "true" ELSE "false"
    [] value.t = "null"      -> "null"
    [] value.t = "undefined" -> "undefined"
    [] value.t = "object"    -> "[object Object]"

\* a & b for naturals
RECURSIVE BitAnd(_, _)
BitAnd(a, b) ==
  IF a = 0 \/ b = 0 THEN 0
  ELSE (a % 2) * (b % 2) + 2 * BitAnd(a \div 2, b \div 2)

\* x & mask for a 32-bit integer x and a mask in 0..255: the low eight bits of
\* the two's complement form of x are x mod 256
JsAnd(x, mask) == BitAnd(x % 256, mask)

\* arr[k]: reading past the end of an array yields undefined
At(arr, k) == IF k + 1 \in DOMAIN arr THEN arr[k + 1] ELSE "undefined"

Range(f) == {f[x] : x \in DOMAIN f}

\* the integers written in a string, in order; cur is the integer being read
\* (its sign and magnitude) or <<>>
RECURSIVE IntsIn(_, _)
IntsIn(s, cur) ==
  LET done == IF cur = <<>> THEN <<>> ELSE <<cur[1] * cur[2]>>
  IN  IF s = "" THEN done
      ELSE LET c == Head(s)
           IN  IF c \in Range(Digit)
               THEN IntsIn(Tail(s),
                      IF cur = <<>> THEN <<1, CharCode[c] - 48>>
                      ELSE <<cur[1], cur[2] * 10 + CharCode[c] - 48>>)
               ELSE IF c = "-" THEN done \o IntsIn(Tail(s), <<-1, 0>>)
               ELSE done \o IntsIn(Tail(s), <<>>)

(***************************************************************************)
(* The host's digest.  Utilities.computeDigest returns signed bytes        *)
(* (-128..127).  The program reads hashBytes[0..3] only, so a digest is    *)
(* modelled by its first four bytes.  MD5 holds the MD5 digests of the     *)
(* program's colour literals and of the strings the sheet model uses.      *)
(***************************************************************************)
Byte == -128 .. 127

MD5 ==
  ("#FFB3BA" :> <<-11, 82, -87, -43>>) @@
  ("#BAFFC9" :> <<53, -34, -62, -15>>) @@
  ("#BAE1FF" :> <<37, -53, 7, -79>>) @@
  ("#FFFFBA" :> <<79, -100, 87, 116>>) @@
  ("#FFB3FF" :> <<103, 115, -43, 41>>) @@
  ("#B3FFF9" :> <<-127, -94, 49, 106>>) @@
  ("#FFD1BA" :> <<98, -57, -33, 77>>) @@
  ("#E5FFBA" :> <<113, -1, 120, 113>>) @@
  ("#BAC3FF" :> <<-87, 29, 16, 96>>) @@
  ("#FFBAD4" :> <<83, -91, -75, -73>>) @@
  ("#BAFFCE" :> <<85, 65, -29, 18>>) @@
  ("#BAF0FF" :> <<-77, -75, -86, -125>>) @@
  ("#FFF7BA" :> <<70, 88, -76, 101>>) @@
  ("#FFB3F1" :> <<8, 4, -22, 68>>) @@
  ("#B3FFE9" :> <<101, 74, -60, -11>>) @@
  ("#FFBAC9" :> <<-75, 45, -124, -22>>) @@
  ("#D4FFBA" :> <<-99, 105, 59, -108>>) @@
  ("#BAD6FF" :> <<47, -16, 87, -65>>) @@
  ("#FFE3BA" :> <<30, -29, 39, -1>>) @@
  ("#F1B3FF" :> <<-6, -53, -41, 74>>) @@
  ("#B3FFF1" :> <<-114, -58, -52, 35>>) @@
  ("#FFBABE" :> <<49, -10, 103, -103>>) @@
  ("#C3FFBA" :> <<-42, -9, 125, -33>>) @@
  ("#BAFFFF" :> <<-121, -24, 93, 8>>) @@
  ("#FFDEBA" :> <<101, 24, -8, 65>>) @@
  ("#E1B3FF" :> <<-84, -39, -51, -57>>) @@
  ("#B3FFD6" :> <<105, 30, 15, 72>>) @@
  ("#FFC9BA" :> <<23, -11, 100, -81>>) @@
  ("#B3FFBA" :> <<-82, -26, 42, -19>>) @@
  ("#BAE8FF" :> <<124, -78, 114, 60>>) @@
  ("#FFCEBA" :> <<-76, -103, -88, -61>>) @@
  ("#D1B3FF" :> <<120, -60, 48, -70>>) @@
  ("#FFFFFF" :> <<38, 45, -88, 1>>) @@
  ("" :> <<-44, 29, -116, -39>>) @@
  ("null" :> <<55, -90, 37, -100>>) @@
  ("undefined" :> <<94, 84, 50, 86>>) @@
  ("Apple" :> <<-97, 98, -112, -12>>) @@
  ("A" :> <<127, -59, 98, 112>>) @@
  ("Banana" :> <<-26, -7, -61, 71>>) @@
  ("X" :> <<2, 18, -101, -72>>) @@
  ("0" :> <<-49, -51, 32, -124>>) @@
  ("false" :> <<104, -109, 74, 62>>) @@
  ("true" :> <<-77, 38, -75, 6>>) @@
  (" " :> <<114, 21, -18, -100>>)

VARIABLES
  md5,        \* the digest function of the host: string -> first four bytes
  calls,      \* the derivations made so far: value and derived style
  cells,      \* the sheet: value and style of every cell
  pc,         \* where the running menu macro stands ("idle": none runs)
  macro,      \* the menu macro that runs or ran last
  range,      \* its active range: the cells lo .. hi
  values,     \* its last range.getValues()
  i,          \* its loop index: the next cell
  colourValues, \* the values the loop of randomColour runs on: the local
              \* values of randomColour, remembered until the macro returns
  edits,      \* how many times the user has edited a cell
  history,    \* what the sheet has seen last: "none", or a run of macro on
              \* range with no edit since it started: a "first" run that
              \* is under way, one that is "done", or the same macro run
              \* "again" on the same range right after
  results,    \* the calls of functions from the sheet so far: the function,
              \* what it returned (ret) or threw (thrown), and the values
              \* it handed to generateColourFromValue (generated)
  sheets,     \* the names of the sheets of the spreadsheet, in order
  rules,      \* the conditional format rules of the sheet "Sheet1"
  ops         \* how many utility functions have been called

macroVars == <<pc, macro, range, values, i, colourValues>>

bookVars == <<sheets, rules, ops>>

callVars == <<results, bookVars>>

sheetVars == <<cells, macroVars, edits, callVars, history>>

vars == <<md5, calls, sheetVars>>

\* Utilities.computeDigest(Utilities.DigestAlgorithm.MD5, str)
computeDigest(str) == md5[str]

(***************************************************************************)
(* The discrete pipeline.  Every function returns its result (ret) and the *)
(* strings it handed to computeDigest (digests).                           *)
(***************************************************************************)
pastelColors ==
  << "#FFB3BA", "#BAFFC9", "#BAE1FF", "#FFFFBA", "#FFB3FF", "#B3FFF9",
     "#FFD1BA", "#E5FFBA", "#BAC3FF", "#FFBAD4", "#BAFFCE", "#BAF0FF",
     "#FFF7BA", "#FFB3F1", "#B3FFE9", "#FFBAC9", "#D4FFBA", "#BAD6FF",
     "#FFE3BA", "#F1B3FF", "#B3FFF1", "#FFBABE", "#C3FFBA", "#BAFFFF",
     "#FFDEBA", "#E1B3FF", "#B3FFD6", "#FFC9BA", "#B3FFBA", "#BAE8FF",
     "#FFCEBA", "#D1B3FF" >>

darkShades ==
  << "#1A1A1A", "#2B2B2B", "#3C3C3C", "#4D4D4D",
     "#262626", "#333333", "#404040", "#595959",
     "#1F1F1F", "#2E2E2E", "#3D3D3D", "#4C4C4C",
     "#232323", "#303030", "#3E3E3E", "#4B4B4B" >>

\* a % b: the remainder takes the sign of the dividend
JsRem(a, b) == IF a < 0 THEN -((-a) % b) ELSE a % b

\* the index with the four-bit mask of getContrastColor
colorIndexOfNarrow(hashBytes) == JsAnd(hashBytes[1], 15)

\* colorIndex = hashBytes[0] & 0x1F
colorIndexOf(hashBytes) == JsAnd(hashBytes[1], 31)

\* getColorFromValue with the index salted by the number of earlier calls
getColorFromValueSalted(value) ==
  IF value = Null \/ value = Undefined \/ value = Str("")
  THEN [ret |-> "#FFFFFF", digests |-> <<>>]
  ELSE LET str == String(value)
           hashBytes == computeDigest(str)
           colorIndex == JsAnd(hashBytes[1] + Len(calls), 31)
       IN  [ret |-> At(pastelColors, colorIndex), digests |-> <<str>>]

\* getColorFromValue with the index taken as hashBytes[0] % 32
getColorFromValueRem(value) ==
  IF value = Null \/ value = Undefined \/ value = Str("")
  THEN [ret |-> "#FFFFFF", digests |-> <<>>]
  ELSE LET str == String(value)
           hashBytes == computeDigest(str)
           colorIndex == JsRem(hashBytes[1], 32)
       IN  [ret |-> At(pastelColors, colorIndex), digests |-> <<str>>]

\* getColorFromValue with the test for an empty cell written as !value
getColorFromValueFalsy(value) ==
  IF value \in {Null, Undefined, Str(""), Num(0), Bool(FALSE)}
  THEN [ret |-> "#FFFFFF", digests |-> <<>>]
  ELSE LET str == String(value)
           hashBytes == computeDigest(str)
           colorIndex == colorIndexOf(hashBytes)
       IN  [ret |-> At(pastelColors, colorIndex), digests |-> <<str>>]

getColorFromValue(value) ==
  IF value = Null \/ value = Undefined \/ value = Str("")
  THEN [ret |-> "#FFFFFF", digests |-> <<>>]
  ELSE LET str == String(value)
           hashBytes == computeDigest(str)
           colorIndex == colorIndexOf(hashBytes)
       IN  [ret |-> At(pastelColors, colorIndex), digests |-> <<str>>]

\* getContrastColor with the five-bit mask of getColorFromValue
getContrastColorWide(backgroundColor) ==
  LET hashBytes == computeDigest(backgroundColor)
      colorIndex == JsAnd(hashBytes[1], 31)
  IN  [ret |-> At(darkShades, colorIndex), digests |-> <<backgroundColor>>]

getContrastColor(backgroundColor) ==
  LET hashBytes == computeDigest(backgroundColor)
      colorIndex == JsAnd(hashBytes[1], 15)
  IN  [ret |-> At(darkShades, colorIndex), digests |-> <<backgroundColor>>]

\* formattingOf without the & 0xFF: the bytes stay signed
formattingOfSigned(hashBytes) ==
  LET boldByte == hashBytes[2]
      italicByte == hashBytes[3]
      underlineByte == hashBytes[4]
  IN  [bold |-> boldByte < 102,
       italic |-> italicByte < 77,
       underline |-> underlineByte < 64]

\* formattingOf with the italic decision taken from the byte of the bold one
formattingOfSameByte(hashBytes) ==
  LET boldByte == JsAnd(hashBytes[2], 255)
      italicByte == JsAnd(hashBytes[2], 255)
      underlineByte == JsAnd(hashBytes[4], 255)
  IN  [bold |-> boldByte < 102,
       italic |-> italicByte < 77,
       underline |-> underlineByte < 64]

\* the thresholds of getRandomFormatting, applied to the digest bytes
formattingOf(hashBytes) ==
  LET boldByte == JsAnd(hashBytes[2], 255)
      italicByte == JsAnd(hashBytes[3], 255)
      underlineByte == JsAnd(hashBytes[4], 255)
  IN  [bold |-> boldByte < 102,
       italic |-> italicByte < 77,
       underline |-> underlineByte < 64]

\* getRandomFormatting without the test for the empty string
getRandomFormattingNoEmpty(value) ==
  IF value = Null \/ value = Undefined
  THEN [ret |-> [bold |-> FALSE, italic |-> FALSE, underline |-> FALSE],
        digests |-> <<>>]
  ELSE LET str == String(value)
           hashBytes == computeDigest(str)
       IN  [ret |-> formattingOf(hashBytes), digests |-> <<str>>]

getRandomFormatting(value) ==
  IF value = Null \/ value = Undefined \/ value = Str("")
  THEN [ret |-> [bold |-> FALSE, italic |-> FALSE, underline |-> FALSE],
        digests |-> <<>>]
  ELSE LET str == String(value)
           hashBytes == computeDigest(str)
       IN  [ret |-> formattingOf(hashBytes), digests |-> <<str>>]

(***************************************************************************)
(* The continuous pipeline.  A 32-bit integer is held as two 16-bit halves *)
(* (its two's complement bits hi * 65536 + lo), so that no step leaves the *)
(* range of the model checker's integers; a number is a sign and a         *)
(* magnitude in the same halves (magnitudes up to 2^31 + 180 occur).       *)
(* The code wraps once per character with hash & hash; the halves wrap     *)
(* after every operation, which is the same modulo 2^32.                   *)
(***************************************************************************)
\* hash << 4 in the place of hash << 5
Shl4(w) ==
  LET lo4 == w.lo * 16
  IN  [hi |-> (w.hi * 16 + lo4 \div 65536) % 65536, lo |-> lo4 % 65536]

\* hash << 5
Shl5(w) ==
  LET lo5 == w.lo * 32
  IN  [hi |-> (w.hi * 32 + lo5 \div 65536) % 65536, lo |-> lo5 % 65536]

\* a - b, wrapped to 32 bits
Sub32(a, b) ==
  LET borrow == IF a.lo < b.lo THEN 1 ELSE 0
  IN  [hi |-> (a.hi - b.hi - borrow) % 65536, lo |-> (a.lo - b.lo) % 65536]

\* a + char, wrapped to 32 bits, for a code unit char
Add32(a, char) ==
  LET lo == a.lo + char
  IN  [hi |-> (a.hi + lo \div 65536) % 65536, lo |-> lo % 65536]

\* the loop of generateColourFromValue over the characters of str from the
\* position at on.  The test of hash.hi is never true; it makes the model
\* checker compute hash at every character, not all at once at the end.
RECURSIVE rollingHash(_, _, _)
rollingHash(str, at, hash) ==
  IF at > Len(str) \/ hash.hi < 0 THEN hash
  ELSE LET char == CharCode[SubSeq(str, at, at)]
       IN  rollingHash(str, at + 1, Add32(Sub32(Shl5(hash), hash), char))

\* the number a 32-bit integer stands for: negative when bit 31 is set
ToNumber(w) ==
  IF w.hi >= 32768
  THEN [neg |-> TRUE,
        hi |-> (65535 - w.hi) + (IF w.lo = 0 THEN 1 ELSE 0),
        lo |-> (65536 - w.lo) % 65536]
  ELSE [neg |-> FALSE, hi |-> w.hi, lo |-> w.lo]

\* Math.abs without effect
MathAbsForgotten(x) == x

MathAbs(x) == [x EXCEPT !.neg = FALSE]

\* x % m for a number x and 0 < m <= 360: the sign of the dividend
NumRem(x, m) ==
  LET r == ((x.hi % m) * (65536 % m) + x.lo) % m
  IN  IF x.neg THEN -r ELSE r

\* x + k for a number x and a small k >= 0
NumAdd(x, k) ==
  IF ~x.neg
  THEN [neg |-> FALSE, hi |-> x.hi + (x.lo + k) \div 65536,
        lo |-> (x.lo + k) % 65536]
  ELSE IF x.hi = 0 /\ x.lo <= k
       THEN [neg |-> FALSE, hi |-> 0, lo |-> k - x.lo]
       ELSE [neg |-> TRUE, hi |-> x.hi - (IF x.lo < k THEN 1 ELSE 0),
             lo |-> (x.lo - k) % 65536]

\* `hsl(${hue}, ${saturation}%, ${lightness}%)`
hslString(hue, saturation, lightness) ==
  "hsl(" \o IntToString(hue) \o ", " \o IntToString(saturation) \o "%, "
         \o IntToString(lightness) \o "%)"

\* the background branch with the lightness taken from hash % 21
backgroundColourMod21(hash) ==
  LET hue == NumRem(hash, 360)
      saturation == 70 + NumRem(hash, 30)
      lightness == 45 + NumRem(hash, 21)
  IN  hslString(hue, saturation, lightness)

\* the branch type === "background"
backgroundColour(hash) ==
  LET hue == NumRem(hash, 360)
      saturation == 70 + NumRem(hash, 30)
      lightness == 45 + NumRem(hash, 20)
  IN  hslString(hue, saturation, lightness)

\* the foreground branch with the hue not reduced after the half turn
foregroundColourNoWrap(hash) ==
  LET hue == NumRem(hash, 360) + 180
      saturation == 80 + NumRem(hash, 20)
      lightness == IF NumRem(hash, 2) = 0 THEN 15 ELSE 85
  IN  hslString(hue, saturation, lightness)

\* the foreground branch with the lightness decided by hash % 3
foregroundColourMod3(hash) ==
  LET hue == NumRem(NumAdd(hash, 180), 360)
      saturation == 80 + NumRem(hash, 20)
      lightness == IF NumRem(hash, 3) = 0 THEN 15 ELSE 85
  IN  hslString(hue, saturation, lightness)

\* the else branch: the foreground
foregroundColour(hash) ==
  LET hue == NumRem(NumAdd(hash, 180), 360)
      saturation == 80 + NumRem(hash, 20)
      lightness == IF NumRem(hash, 2) = 0 THEN 15 ELSE 85
  IN  hslString(hue, saturation, lightness)

\* value.toString() throws a TypeError for null and undefined; next to the
\* colour returned (ret), rolled is the local hash at the end of the loop and
\* hash the same local after Math.abs
generateColourFromValue(value, type) ==
  IF value = Null \/ value = Undefined
  THEN [ret |-> "", error |-> "TypeError", rolled |-> [hi |-> 0, lo |-> 0],
        hash |-> [neg |-> FALSE, hi |-> 0, lo |-> 0]]
  ELSE LET str == String(value)
           rolled == rollingHash(str, 1, [hi |-> 0, lo |-> 0])
           hash == MathAbs(ToNumber(rolled))
       IN  [ret |-> IF type = "background" THEN backgroundColour(hash)
                    ELSE foregroundColour(hash),
            error |-> "", rolled |-> rolled, hash |-> hash]

(***************************************************************************)
(* The sheet.  One sheet, "Sheet1", of one row of NCells cells; a range is *)
(* the cells lo .. hi of it.  A cell carries its value and its style.      *)
(***************************************************************************)
Cells == 1 .. NCells

SheetNames == {"Sheet1"}

\* what range.getValues() yields for the cells of the model
CellValues == {Str(""), Str("Apple"), Str("Banana")}

\* the style of a cell that was never formatted
DefaultStyle ==
  [background |-> "#ffffff", fontColor |-> "#000000", fontWeight |-> "normal",
   fontStyle |-> "normal", fontLine |-> "none", fontSize |-> 10]

\* the styles a cell may carry before the program runs
PriorStyles ==
  {DefaultStyle,
   [background |-> "#FFB3BA", fontColor |-> "#1A1A1A", fontWeight |-> "bold",
    fontStyle |-> "italic", fontLine |-> "underline", fontSize |-> 10]}

Cell(value, style) ==
  [value |-> value, background |-> style.background,
   fontColor |-> style.fontColor, fontWeight |-> style.fontWeight,
   fontStyle |-> style.fontStyle, fontLine |-> style.fontLine,
   fontSize |-> style.fontSize]

Ranges == {r \in [lo : Cells, hi : Cells] : r.lo <= r.hi}

\* no macro runs and no function was called
Quiet ==
  /\ pc = "idle"
  /\ macro = ""
  /\ range = [lo |-> 1, hi |-> 1]
  /\ values = <<>>
  /\ i = 1
  /\ colourValues = <<>>
  /\ edits = 0
  /\ history = "none"
  /\ results = <<>>
  /\ sheets = <<"Sheet1">>
  /\ rules = <<>>
  /\ ops = 0

\* the styles of the sheet before the program runs: no cell was ever
\* formatted, or every other cell was
PriorSheets ==
  {[k \in Cells |-> DefaultStyle],
   [k \in Cells |->
      IF k % 2 = 1 THEN CHOOSE st \in PriorStyles : st # DefaultStyle
      ELSE DefaultStyle]}

InitSheet ==
  /\ md5 = MD5
  /\ calls = <<>>
  /\ cells \in {[k \in Cells |-> Cell(v[k], st[k])] :
                  v \in [Cells -> CellValues], st \in PriorSheets}
  /\ Quiet

\* range.getValues()
getValues(r) == [k \in r.lo .. r.hi |-> cells[k].value]

(***************************************************************************)
(* The menu macros randomColour and randomFormat, one step per cell.  The  *)
(* user may edit a cell while a macro runs and between two macros.         *)
(***************************************************************************)
\* the history when the macro m starts on the range r: it runs again when
\* the last thing the sheet saw is a completed run of m on r
started(m, r) ==
  IF history = "done" /\ macro = m /\ range = r THEN "again" ELSE "first"

\* the history when the running macro returns
completed == IF history = "none" THEN "none" ELSE "done"

\* randomColour up to the loop: the active range and its values
randomColour(r) ==
  /\ pc = "idle"
  /\ pc' = "colour"
  /\ macro' = "randomColour"
  /\ range' = r
  /\ values' = getValues(r)
  /\ colourValues' = getValues(r)
  /\ i' = r.lo
  /\ history' = started("randomColour", r)
  /\ UNCHANGED <<md5, calls, cells, edits, callVars>>

\* randomFormat up to the loop of the randomColour it calls
randomFormat(r) ==
  /\ pc = "idle"
  /\ pc' = "colour"
  /\ macro' = "randomFormat"
  /\ range' = r
  /\ values' = getValues(r)
  /\ colourValues' = getValues(r)
  /\ i' = r.lo
  /\ history' = started("randomFormat", r)
  /\ UNCHANGED <<md5, calls, cells, edits, callVars>>

\* the body of the loop with the text colour taken from the background of
\* the cell before, once that cell carries a palette colour
randomColourBodyCarry(cs, vals, k) ==
  LET cellValue == vals[k]
      backgroundColor == getColorFromValue(cellValue).ret
      textColor ==
        getContrastColor(
          IF k - 1 \in DOMAIN vals /\ cs[k - 1].background \in Range(pastelColors)
          THEN cs[k - 1].background ELSE backgroundColor).ret
  IN  [cs EXCEPT ![k].background = backgroundColor, ![k].fontColor = textColor]

\* the body of the loop that also puts the emphasis of the cell back to none
randomColourBodyPlain(cs, vals, k) ==
  LET cellValue == vals[k]
      backgroundColor == getColorFromValue(cellValue).ret
      textColor == getContrastColor(backgroundColor).ret
  IN  [cs EXCEPT ![k].background = backgroundColor, ![k].fontColor = textColor,
                 ![k].fontWeight = "normal", ![k].fontStyle = "normal",
                 ![k].fontLine = "none"]

\* the body of the loop of randomColour for the cell k of the sheet cs, vals
\* being the values read before the loop
randomColourBody(cs, vals, k) ==
  LET cellValue == vals[k]
      backgroundColor == getColorFromValue(cellValue).ret
      textColor == getContrastColor(backgroundColor).ret
  IN  [cs EXCEPT ![k].background = backgroundColor, ![k].fontColor = textColor]

\* the body of the loop of randomFormat for the cell k; the summary string and
\* the background colour it computes last are never used
randomFormatBody(cs, vals, k) ==
  LET cellValue == vals[k]
      formatting == getRandomFormatting(cellValue).ret
  IN  [cs EXCEPT
         ![k].fontWeight = IF formatting.bold THEN "bold" ELSE "normal",
         ![k].fontStyle = IF formatting.italic THEN "italic" ELSE "normal",
         ![k].fontLine = IF formatting.underline THEN "underline" ELSE "none"]

\* one pass of the loop of randomColour, for the cell i; after the last cell
\* randomColour returns, to the menu or into randomFormat
randomColourCell ==
  /\ pc = "colour"
  /\ cells' = randomColourBody(cells, values, i)
  /\ IF i < range.hi
     THEN /\ i' = i + 1
          /\ UNCHANGED <<pc, values>>
     ELSE /\ i' = range.lo
          /\ values' = <<>>
          /\ pc' = IF macro = "randomFormat" THEN "read" ELSE "idle"
  /\ history' = IF pc' = "idle" THEN completed ELSE history
  /\ colourValues' = IF pc' = "idle" THEN <<>> ELSE colourValues
  /\ UNCHANGED <<md5, calls, macro, range, edits, callVars>>

\* randomFormat going on with the values that randomColour read
randomFormatReadOnce ==
  /\ pc = "read"
  /\ pc' = "format"
  /\ values' = colourValues
  /\ UNCHANGED <<md5, calls, cells, macro, range, i, colourValues, edits,
                 callVars, history>>

\* randomFormat reads the values again
randomFormatRead ==
  /\ pc = "read"
  /\ pc' = "format"
  /\ values' = getValues(range)
  /\ UNCHANGED <<md5, calls, cells, macro, range, i, colourValues, edits,
                 callVars, history>>

\* the body of the loop of randomFormat with bold toggled, not set
randomFormatCellToggle ==
  /\ pc = "format"
  /\ LET cellValue == values[i]
         formatting == getRandomFormatting(cellValue).ret
     IN  cells' =
           [cells EXCEPT
              ![i].fontWeight =
                 IF formatting.bold /\ @ # "bold" THEN "bold" ELSE "normal",
              ![i].fontStyle = IF formatting.italic THEN "italic" ELSE "normal",
              ![i].fontLine =
                 IF formatting.underline THEN "underline" ELSE "none"]
  /\ IF i < range.hi
     THEN /\ i' = i + 1
          /\ UNCHANGED <<pc, values>>
     ELSE /\ i' = range.lo
          /\ values' = <<>>
          /\ pc' = "idle"
  /\ history' = IF pc' = "idle" THEN completed ELSE history
  /\ colourValues' = IF pc' = "idle" THEN <<>> ELSE colourValues
  /\ UNCHANGED <<md5, calls, macro, range, edits, callVars>>

\* the body of the loop of randomFormat with each emphasis set only when its
\* decision is true, and left as it was otherwise
randomFormatCellKeep ==
  /\ pc = "format"
  /\ LET cellValue == values[i]
         formatting == getRandomFormatting(cellValue).ret
     IN  cells' =
           [cells EXCEPT
              ![i].fontWeight = IF formatting.bold THEN "bold" ELSE @,
              ![i].fontStyle = IF formatting.italic THEN "italic" ELSE @,
              ![i].fontLine = IF formatting.underline THEN "underline" ELSE @]
  /\ IF i < range.hi
     THEN /\ i' = i + 1
          /\ UNCHANGED <<pc, values>>
     ELSE /\ i' = range.lo
          /\ values' = <<>>
          /\ pc' = "idle"
  /\ history' = IF pc' = "idle" THEN completed ELSE history
  /\ colourValues' = IF pc' = "idle" THEN <<>> ELSE colourValues
  /\ UNCHANGED <<md5, calls, macro, range, edits, callVars>>

\* one pass of the loop of randomFormat, for the cell i
randomFormatCell ==
  /\ pc = "format"
  /\ cells' = randomFormatBody(cells, values, i)
  /\ IF i < range.hi
     THEN /\ i' = i + 1
          /\ UNCHANGED <<pc, values>>
     ELSE /\ i' = range.lo
          /\ values' = <<>>
          /\ pc' = "idle"
  /\ history' = IF pc' = "idle" THEN completed ELSE history
  /\ colourValues' = IF pc' = "idle" THEN <<>> ELSE colourValues
  /\ UNCHANGED <<md5, calls, macro, range, edits, callVars>>

\* the style attributes of the cell k that the running macro has computed so
\* far: getColorFromValue and getContrastColor are called in the loop of
\* randomColour, getRandomFormatting only in the later loop of randomFormat
computed(k) ==
  LET colours == {"background", "fontColor"}
      emphasis == {"fontWeight", "fontStyle", "fontLine"}
  IN  IF k \notin range.lo .. range.hi THEN {}
      ELSE IF pc = "colour" THEN (IF k < i THEN colours ELSE {})
      ELSE IF pc = "read" THEN colours
      ELSE IF pc = "format"
           THEN (IF k < i THEN colours \cup emphasis ELSE colours)
      ELSE {}

\* the user types a value into a cell.  An edit and a step of a loop commute:
\* the step writes a style from the values read before the loop, the edit
\* writes a value.  So an edit is taken where the program reads the sheet
\* next: before a macro starts and before randomFormat reads the values again.
Edit(k, value) ==
  /\ edits < MaxEdits
  /\ pc \in {"idle", "read"}
  /\ cells[k].value # value
  /\ cells' = [cells EXCEPT ![k].value = value]
  /\ edits' = edits + 1
  /\ history' = "none"
  /\ UNCHANGED <<md5, calls, macroVars, callVars>>

Next ==
  \/ \E r \in Ranges : randomColour(r)
  \/ \E r \in Ranges : randomFormat(r)
  \/ randomColourCell
  \/ randomFormatRead
  \/ randomFormatCell
  \/ \E k \in Cells, value \in CellValues : Edit(k, value)

Spec == InitSheet /\ [][Next]_vars

(***************************************************************************)
(* The callers of generateColourFromValue.  Each is one call from a cell   *)
(* formula or a script: its effect on the sheet, the error it throws       *)
(* (thrown, "" if none) and the values it hands on to                      *)
(* generateColourFromValue are computed as one step.                       *)
(***************************************************************************)
\* the options of the model: every field is undefined or set
OptionSets ==
  {[bold |-> Undefined, italic |-> Undefined, fontSize |-> Undefined],
   [bold |-> Bool(TRUE), italic |-> Bool(FALSE), fontSize |-> Str("14")],
   [bold |-> Bool(FALSE), italic |-> Bool(TRUE), fontSize |-> Undefined]}

\* the values handed to the functions that take a value
CallValues == CellValues \cup {Null, Undefined}

\* the sheet names handed to the functions: one that exists, one that does not
CallSheetNames == SheetNames \cup {"Missing"}

\* whether a value counts as true in a condition
Truthy(value) ==
  CASE value.t = "string"  -> value.s # ""
    [] value.t = "number"  -> value.n # 0
    [] value.t = "boolean" -> value.n = 1
    [] OTHER               -> FALSE

\* parseInt of a string of digits
parseInt(str) == IntsIn(str, <<>>)[1]

\* colourCellByValueRandom on the sheet cs
colourCellByValueRandom(cs, sheetName, cellAddress, value, options) ==
  IF sheetName \notin SheetNames
  THEN [cells |-> cs, thrown |-> "Sheet \"" \o sheetName \o "\" not found",
        generated |-> <<>>]
  ELSE
    LET set == IF value # Undefined /\ value # Null
                  /\ cs[cellAddress].value # value
               THEN [cs EXCEPT ![cellAddress].value = value]
               ELSE cs
        backgroundColour_ == generateColourFromValue(value, "background")
        foregroundColour_ == generateColourFromValue(value, "foreground")
        styled ==
          [set EXCEPT
             ![cellAddress].background = backgroundColour_.ret,
             ![cellAddress].fontColor = foregroundColour_.ret,
             ![cellAddress].fontWeight =
                IF options.bold = Undefined THEN @
                ELSE IF Truthy(options.bold) THEN "bold" ELSE "normal",
             ![cellAddress].fontStyle =
                IF options.italic = Undefined THEN @
                ELSE IF Truthy(options.italic) THEN "italic" ELSE "normal",
             ![cellAddress].fontSize =
                IF Truthy(options.fontSize)
                THEN parseInt(String(options.fontSize)) ELSE @]
    IN  IF backgroundColour_.error # ""
        THEN [cells |-> set, thrown |-> backgroundColour_.error,
              generated |-> <<value>>]
        ELSE [cells |-> styled, thrown |-> "", generated |-> <<value, value>>]

RECURSIVE colourRangeLoop(_, _, _, _, _, _)
\* what the loop yields from the cell k on when the call for the cell k
\* yields one: an error ends the loop
colourRangeNext(one, sheetName, vs, k, hi, options) ==
  IF one.thrown # "" THEN one
  ELSE LET rest == colourRangeLoop(one.cells, sheetName, vs, k + 1, hi,
                                   options)
       IN  [cells |-> rest.cells, thrown |-> rest.thrown,
            generated |-> one.generated \o rest.generated]

\* the loop of colourRangeByValueRandom over the values vs read at its start,
\* from the cell k on
colourRangeLoop(cs, sheetName, vs, k, hi, options) ==
  IF k > hi THEN [cells |-> cs, thrown |-> "", generated |-> <<>>]
  ELSE IF vs[k] # Null /\ vs[k] # Undefined /\ vs[k] # Str("")
       THEN colourRangeNext(
              colourCellByValueRandom(cs, sheetName, k, vs[k], options),
              sheetName, vs, k, hi, options)
       ELSE colourRangeLoop(cs, sheetName, vs, k + 1, hi, options)

colourRangeByValueRandom(cs, sheetName, r, options) ==
  IF sheetName \notin SheetNames
  THEN [cells |-> cs, thrown |-> "Sheet \"" \o sheetName \o "\" not found",
        generated |-> <<>>]
  ELSE colourRangeLoop(cs, sheetName, [k \in r.lo .. r.hi |-> cs[k].value],
                       r.lo, r.hi, options)

\* colourCellRandom: the try block and what the call returns
colourCellRandom(cs, sheetName, cellAddress, value, bold) ==
  IF sheetName \notin SheetNames
  THEN [cells |-> cs, ret |-> "Error: Sheet not found", generated |-> <<>>]
  ELSE
    LET backgroundColour_ == generateColourFromValue(value, "background")
        foregroundColour_ == generateColourFromValue(value, "foreground")
        styled ==
          [cs EXCEPT ![cellAddress].background = backgroundColour_.ret,
                     ![cellAddress].fontColor = foregroundColour_.ret,
                     ![cellAddress].fontWeight = IF bold THEN "bold" ELSE @]
    IN  IF backgroundColour_.error # ""
        THEN [cells |-> cs, ret |-> "Error: " \o backgroundColour_.error,
              generated |-> <<value>>]
        ELSE [cells |-> styled,
              ret |-> "Cell coloured with random high contrast colours",
              generated |-> <<value, value>>]

\* colourRangeRandom: the try block and what the call returns
colourRangeRandom(cs, sheetName, r, bold) ==
  LET options == [bold |-> Bool(bold), italic |-> Undefined,
                  fontSize |-> Undefined]
      done == colourRangeByValueRandom(cs, sheetName, r, options)
  IN  [cells |-> done.cells,
       ret |-> IF done.thrown # "" THEN "Error: " \o done.thrown
               ELSE "Range coloured with random high contrast colours",
       generated |-> done.generated]

CallColourCellByValueRandom(sheetName, cellAddress, value, options) ==
  /\ Len(results) < MaxResults
  /\ LET done == colourCellByValueRandom(cells, sheetName, cellAddress, value,
                                         options)
     IN  /\ cells' = done.cells
         /\ results' = Append(results,
                         [fn |-> "colourCellByValueRandom", ret |-> "", thrown |-> done.thrown,
                          generated |-> done.generated])
  /\ UNCHANGED <<md5, calls, macroVars, edits, history, bookVars>>

CallColourRangeByValueRandom(sheetName, r, options) ==
  /\ Len(results) < MaxResults
  /\ LET done == colourRangeByValueRandom(cells, sheetName, r, options)
     IN  /\ cells' = done.cells
         /\ results' = Append(results,
                         [fn |-> "colourRangeByValueRandom", ret |-> "", thrown |-> done.thrown,
                          generated |-> done.generated])
  /\ UNCHANGED <<md5, calls, macroVars, edits, history, bookVars>>

CallColourCellRandom(sheetName, cellAddress, value, bold) ==
  /\ Len(results) < MaxResults
  /\ LET done == colourCellRandom(cells, sheetName, cellAddress, value, bold)
     IN  /\ cells' = done.cells
         /\ results' = Append(results,
                         [fn |-> "colourCellRandom", ret |-> done.ret, thrown |-> "",
                          generated |-> done.generated])
  /\ UNCHANGED <<md5, calls, macroVars, edits, history, bookVars>>

CallColourRangeRandom(sheetName, r, bold) ==
  /\ Len(results) < MaxResults
  /\ LET done == colourRangeRandom(cells, sheetName, r, bold)
     IN  /\ cells' = done.cells
         /\ results' = Append(results,
                         [fn |-> "colourRangeRandom", ret |-> done.ret, thrown |-> "",
                          generated |-> done.generated])
  /\ UNCHANGED <<md5, calls, macroVars, edits, history, bookVars>>

NextRandom ==
  \/ \E sheetName \in CallSheetNames, k \in Cells, value \in CallValues,
        options \in OptionSets :
       CallColourCellByValueRandom(sheetName, k, value, options)
  \/ \E sheetName \in CallSheetNames, r \in Ranges, options \in OptionSets :
       CallColourRangeByValueRandom(sheetName, r, options)
  \/ \E sheetName \in CallSheetNames, k \in Cells, value \in CallValues,
        bold \in BOOLEAN :
       CallColourCellRandom(sheetName, k, value, bold)
  \/ \E sheetName \in CallSheetNames, r \in Ranges, bold \in BOOLEAN :
       CallColourRangeRandom(sheetName, r, bold)

SpecRandom == InitSheet /\ [][NextRandom]_vars

(***************************************************************************)
(* Generation of the colour pair of single values.                         *)
(***************************************************************************)
HashAlphabet == {"a", "Z"}

RECURSIVE StringsUpTo(_)
StringsUpTo(n) ==
  IF n = 0 THEN {""}
  ELSE LET shorter == StringsUpTo(n - 1)
       IN  shorter \cup {s \o c : s \in shorter, c \in HashAlphabet}

\* strings of six and more characters reach the negative hashes; the hash
\* of "GydZG_" is -2^31
LongStrings ==
  {"GydZG_", "Banana", "zzzzzz", "Orange", "Cherry", "Complete", "Apple"}

\* two strings of equal rolling hash: 65 * 31 + 97 = 66 * 31 + 66 = 2112
CollidingStrings == {"Aa", "BB"}

\* a string whose rolling hash is that of "a" plus four times 360:
\* 48 * 31 + 49 = 1537 = 97 + 1440
CongruentStrings == {"01"}

GenerateArgs ==
  {Str(s) : s \in StringsUpTo(MaxLen) \cup LongStrings \cup CollidingStrings
                  \cup CongruentStrings}
    \cup {Num(0), Bool(TRUE), Null, Undefined, Obj}

\* the sheet is not used
NoSheet ==
  /\ cells = [k \in Cells |-> Cell(Str(""), DefaultStyle)]
  /\ Quiet

InitGenerate ==
  /\ md5 = MD5
  /\ calls = <<>>
  /\ NoSheet

Generate(value) ==
  /\ Len(calls) < MaxCalls
  /\ LET backgroundColour_ == generateColourFromValue(value, "background")
         foregroundColour_ == generateColourFromValue(value, "foreground")
     IN  calls' = Append(calls,
                    [value |-> value,
                     background |-> backgroundColour_.ret,
                     foreground |-> foregroundColour_.ret,
                     error |-> backgroundColour_.error,
                     rolled |-> backgroundColour_.rolled,
                     hash |-> backgroundColour_.hash])
  /\ UNCHANGED <<md5, sheetVars>>

NextGenerate == \E value \in GenerateArgs : Generate(value)

SpecGenerate == InitGenerate /\ [][NextGenerate]_vars

(***************************************************************************)
(* Derivation of the discrete style of single values: what randomColour    *)
(* and randomFormat compute for one cell.  "X" stands for an arbitrary     *)
(* non-empty string: its digest is any of DigestChoices.                   *)
(***************************************************************************)
DigestBases == {<<0, 0, 0, 0>>, <<-1, -1, -1, -1>>}

\* every byte value at every position of the digest
DigestChoices ==
  {[base EXCEPT ![k] = b] : base \in DigestBases, k \in 1 .. 4, b \in Byte}

DeriveArgs == {Null, Undefined, Str(""), Str("X"), Str("Apple"), Str("A")}

InitDerive ==
  /\ md5 \in {[MD5 EXCEPT !["X"] = d] : d \in DigestChoices}
  /\ calls = <<>>
  /\ NoSheet

Derive(value) ==
  /\ Len(calls) < MaxCalls
  /\ LET backgroundColor == getColorFromValue(value)
         textColor == getContrastColor(backgroundColor.ret)
         formatting == getRandomFormatting(value)
     IN  calls' = Append(calls,
                    [value |-> value,
                     backgroundColor |-> backgroundColor.ret,
                     textColor |-> textColor.ret,
                     formatting |-> formatting.ret,
                     colorDigests |-> backgroundColor.digests,
                     contrastDigests |-> textColor.digests,
                     formattingDigests |-> formatting.digests])
  /\ UNCHANGED <<md5, sheetVars>>

NextDerive == \E value \in DeriveArgs : Derive(value)

SpecDerive == InitDerive /\ [][NextDerive]_vars

(***************************************************************************)
(* The background colour of values next to the empty ones: 0, false and a  *)
(* single space.  The first digest byte of "X" is any byte.                *)
(***************************************************************************)
ColourArgs ==
  {Null, Undefined, Str(""), Num(0), Bool(FALSE), Str(" "), Str("X")}

InitColour ==
  /\ md5 \in {[MD5 EXCEPT !["X"] = <<b, 0, 0, 0>>] : b \in Byte}
  /\ calls = <<>>
  /\ NoSheet

NextColour == \E value \in ColourArgs : Derive(value)

SpecColour == InitColour /\ [][NextColour]_vars

(***************************************************************************)
(* The spreadsheet utility functions and the custom functions that wrap    *)
(* them.  A spreadsheet ss is the names of its sheets in order (sheets),   *)
(* the cells of "Sheet1" (cells) and the conditional format rules of       *)
(* "Sheet1" (rules).  The other sheets are empty: the functions that touch *)
(* cells or rules are called with "Sheet1" or with a name that no sheet    *)
(* carries, and "Sheet1" is never deleted.  Each function is one call: the *)
(* spreadsheet it leaves (ss), what it returns (ret, a value) and the      *)
(* message of the error it throws (thrown, "" if none).  The font family   *)
(* and the alignments of a cell are not modelled.                          *)
(***************************************************************************)
\* how many utility functions are called in a row
MaxOps == 2

\* the spreadsheet as the functions find it
Book == [sheets |-> sheets, cells |-> cells, rules |-> rules]

\* a sheet object: its name and its position among the sheets
Sheet(name, position) == [t |-> "sheet", s |-> name, n |-> position]

\* spreadsheet.getSheetByName(sheetName): the position of the first sheet of
\* that name, 0 for null
getSheetByName(ss, sheetName) ==
  IF \E p \in DOMAIN ss.sheets : ss.sheets[p] = sheetName
  THEN CHOOSE p \in DOMAIN ss.sheets :
         /\ ss.sheets[p] = sheetName
         /\ \A q \in 1 .. p - 1 : ss.sheets[q] # sheetName
  ELSE 0

\* an address that is not on the sheet: sheet.getRange throws for it
BadAddress == 0

BadRange == [lo |-> 0, hi |-> 0]

\* the message of the error sheet.getRange throws
RangeNotFound == "Range not found"

\* `Sheet "${sheetName}" not found`
NotFound(sheetName) == "Sheet \"" \o sheetName \o "\" not found"

Throws(ss, message) == [ss |-> ss, ret |-> Undefined, thrown |-> message]

Returns(ss, value) == [ss |-> ss, ret |-> value, thrown |-> ""]

\* the cell k of the sheet cs with background and font colour set where the
\* colour given is truthy
setColours(cs, k, background, font) ==
  [cs EXCEPT
     ![k].background = IF Truthy(background) THEN background.s ELSE @,
     ![k].fontColor = IF Truthy(font) THEN font.s ELSE @]

\* the cell k of the sheet cs with each of weight, style and line set where
\* the flag given is not undefined
setEmphasis(cs, k, bold, italic, underline) ==
  [cs EXCEPT
     ![k].fontWeight =
        IF bold = Undefined THEN @
        ELSE IF Truthy(bold) THEN "bold" ELSE "normal",
     ![k].fontStyle =
        IF italic = Undefined THEN @
        ELSE IF Truthy(italic) THEN "italic" ELSE "normal",
     ![k].fontLine =
        IF underline = Undefined THEN @
        ELSE IF Truthy(underline) THEN "underline" ELSE "none"]

colourCellByValue(ss, sheetName, cellAddress, value, colourRules) ==
  IF getSheetByName(ss, sheetName) = 0 THEN Throws(ss, NotFound(sheetName))
  ELSE IF cellAddress \notin Cells THEN Throws(ss, RangeNotFound)
  ELSE
    LET set == IF ss.cells[cellAddress].value # value
               THEN [ss.cells EXCEPT ![cellAddress].value = value]
               ELSE ss.cells
    IN  Returns([ss EXCEPT !.cells = setColours(set, cellAddress,
                                       colourRules.background,
                                       colourRules.font)],
                Undefined)

\* the rule built for one condition on the range rangeObj
formatRule(rangeObj, condition) ==
  [ranges |-> <<rangeObj>>, condition |-> condition.condition,
   values |-> condition.values, background |-> condition.background,
   fontColor |-> condition.font]

\* conditions.forEach from the k-th condition on, rs being the rules of the
\* sheet: sheet.setConditionalFormatRules([rule]) makes the one rule the
\* rules of the sheet
RECURSIVE applyConditions(_, _, _, _)
applyConditions(rs, rangeObj, conditions, k) ==
  IF k > Len(conditions) THEN rs
  ELSE applyConditions(<<formatRule(rangeObj, conditions[k])>>, rangeObj,
                       conditions, k + 1)

applyConditionalFormatting(ss, sheetName, r, conditions) ==
  IF getSheetByName(ss, sheetName) = 0 THEN Throws(ss, NotFound(sheetName))
  ELSE IF r \notin Ranges THEN Throws(ss, RangeNotFound)
  ELSE Returns([ss EXCEPT !.rules = applyConditions(@, r, conditions, 1)],
               Undefined)

getCellValue(ss, sheetName, cellAddress) ==
  IF getSheetByName(ss, sheetName) = 0 THEN Throws(ss, NotFound(sheetName))
  ELSE IF cellAddress \notin Cells THEN Throws(ss, RangeNotFound)
  ELSE Returns(ss, ss.cells[cellAddress].value)

\* vs holds the value for every cell of the range
setRangeValues(ss, sheetName, r, vs) ==
  IF getSheetByName(ss, sheetName) = 0 THEN Throws(ss, NotFound(sheetName))
  ELSE IF r \notin Ranges THEN Throws(ss, RangeNotFound)
  ELSE Returns([ss EXCEPT !.cells =
                  [k \in Cells |->
                     IF k \in r.lo .. r.hi THEN [@[k] EXCEPT !.value = vs[k]]
                     ELSE @[k]]],
               Undefined)

\* clearFormat() puts the cells of the range back to the default style
clearFormatting(ss, sheetName, r) ==
  IF getSheetByName(ss, sheetName) = 0 THEN Throws(ss, NotFound(sheetName))
  ELSE IF r \notin Ranges THEN Throws(ss, RangeNotFound)
  ELSE Returns([ss EXCEPT !.cells =
                  [k \in Cells |->
                     IF k \in r.lo .. r.hi
                     THEN Cell(@[k].value, DefaultStyle) ELSE @[k]]],
               Undefined)

\* createSheetIfNotExists without the test: insertSheet in every case
createSheetAlways(ss, sheetName) ==
  LET inserted == [ss EXCEPT !.sheets = Append(@, sheetName)]
  IN  Returns(inserted, Sheet(sheetName, Len(inserted.sheets)))

\* insertSheet puts the new sheet after the others
createSheetIfNotExists(ss, sheetName) ==
  LET found == getSheetByName(ss, sheetName)
      inserted == [ss EXCEPT !.sheets = Append(@, sheetName)]
  IN  IF found = 0
      THEN Returns(inserted, Sheet(sheetName, Len(inserted.sheets)))
      ELSE Returns(ss, Sheet(sheetName, found))

getAllSheetNames(ss) == Returns(ss, ss.sheets)

\* the sheets without the one at the position p
without(names, p) ==
  SubSeq(names, 1, p - 1) \o SubSeq(names, p + 1, Len(names))

\* deleteSheet that returns quietly when there is no such sheet
deleteSheetQuiet(ss, sheetName) ==
  LET sheet == getSheetByName(ss, sheetName)
  IN  IF sheet # 0
      THEN Returns([ss EXCEPT !.sheets = without(@, sheet)], Undefined)
      ELSE Returns(ss, Undefined)

deleteSheet(ss, sheetName) ==
  LET sheet == getSheetByName(ss, sheetName)
  IN  IF sheet # 0
      THEN Returns([ss EXCEPT !.sheets = without(@, sheet)], Undefined)
      ELSE Throws(ss, NotFound(sheetName))

\* the font line after the two setFontLine calls of formatCellByValue, the
\* second for strikethrough, line being the font line before
fontLineOf(line, underline, strikethrough) ==
  LET underlined ==
        IF underline # Undefined
        THEN (IF Truthy(underline) THEN "underline" ELSE "none")
        ELSE line
  IN  IF strikethrough # Undefined
      THEN (IF Truthy(strikethrough) THEN "line-through" ELSE "none")
      ELSE underlined

formatCellByValue(ss, sheetName, cellAddress, value, styleRules) ==
  IF getSheetByName(ss, sheetName) = 0 THEN Throws(ss, NotFound(sheetName))
  ELSE IF cellAddress \notin Cells THEN Throws(ss, RangeNotFound)
  ELSE
    LET set == IF value # Undefined /\ value # Null
                  /\ ss.cells[cellAddress].value # value
               THEN [ss.cells EXCEPT ![cellAddress].value = value]
               ELSE ss.cells
        coloured == setColours(set, cellAddress, styleRules.background,
                               styleRules.font)
        styled == setEmphasis(coloured, cellAddress, styleRules.bold,
                              styleRules.italic, Undefined)
    IN  Returns([ss EXCEPT !.cells =
                   [styled EXCEPT
                      ![cellAddress].fontLine =
                         fontLineOf(@, styleRules.underline,
                                    styleRules.strikethrough),
                      ![cellAddress].fontSize =
                         IF Truthy(styleRules.fontSize)
                         THEN parseInt(String(styleRules.fontSize)) ELSE @]],
                Undefined)

\* try { ...; return message } where the catch block is left out: the error
\* goes on to the caller
catchNothing(done, message) ==
  IF done.thrown # "" THEN done
  ELSE Returns(done.ss, Str(message))

\* try { ...; return message } catch (error) { return "Error: " +
\* error.message }, done being what the try block did
catchError(done, message) ==
  IF done.thrown # "" THEN Returns(done.ss, Str("Error: " \o done.thrown))
  ELSE Returns(done.ss, Str(message))

colourCell(ss, sheetName, cellAddress, value, backgroundColour_, fontColour) ==
  catchError(
    colourCellByValue(ss, sheetName, cellAddress, value,
                      [background |-> backgroundColour_, font |-> fontColour]),
    "Cell coloured successfully")

colourCellFormat(ss, sheetName, cellAddress, backgroundColour_, fontColour) ==
  IF getSheetByName(ss, sheetName) = 0
  THEN Returns(ss, Str("Error: Sheet not found"))
  ELSE catchError(
         IF cellAddress \notin Cells THEN Throws(ss, RangeNotFound)
         ELSE Returns([ss EXCEPT !.cells = setColours(@, cellAddress,
                                             backgroundColour_, fontColour)],
                      Undefined),
         "Formatting applied successfully")

applyConditionalFormat(ss, sheetName, r, condition, value, backgroundColour_, fontColour) ==
  LET conditions == <<[condition |-> condition, values |-> <<value>>,
                       background |-> backgroundColour_, font |-> fontColour]>>
  IN  catchError(applyConditionalFormatting(ss, sheetName, r, conditions),
                 "Conditional formatting applied successfully")

getValue(ss, sheetName, cellAddress) ==
  LET done == getCellValue(ss, sheetName, cellAddress)
  IN  IF done.thrown # "" THEN Returns(done.ss, Str("Error: " \o done.thrown))
      ELSE done

clearFormat(ss, sheetName, r) ==
  catchError(clearFormatting(ss, sheetName, r),
             "Formatting cleared successfully")

formatCell(ss, sheetName, cellAddress, value, backgroundColour_, fontColour, bold, italic, underline) ==
  IF getSheetByName(ss, sheetName) = 0
  THEN Returns(ss, Str("Error: Sheet not found"))
  ELSE catchError(
         IF cellAddress \notin Cells THEN Throws(ss, RangeNotFound)
         ELSE Returns([ss EXCEPT !.cells =
                         setEmphasis(setColours(@, cellAddress,
                                                backgroundColour_, fontColour),
                                     cellAddress, bold, italic, underline)],
                      Undefined),
         "Cell formatted successfully")

Upper == "ABCDEFGHIJKLMNOPQRSTUVWXYZ"

Lower == "abcdefghijklmnopqrstuvwxyz"

\* String.prototype.toLowerCase for ASCII strings
RECURSIVE toLowerCase(_)
toLowerCase(str) ==
  IF str = "" THEN ""
  ELSE LET c == SubSeq(str, 1, 1)
           lower == IF \E p \in 1 .. 26 : SubSeq(Upper, p, p) = c
                    THEN LET p == CHOOSE q \in 1 .. 26 : SubSeq(Upper, q, q) = c
                         IN  SubSeq(Lower, p, p)
                    ELSE c
       IN  lower \o toLowerCase(SubSeq(str, 2, Len(str)))

\* the switch of formatByStatus with every emphasis decided in every case
statusStyleReset(status) ==
  LET lower == toLowerCase(status)
  IN  IF lower \in {"complete", "done", "finished"}
      THEN [backgroundColour |-> "#d4edda", fontColour |-> "#155724",
            bold |-> Bool(TRUE), italic |-> Bool(FALSE),
            underline |-> Bool(FALSE)]
      ELSE IF lower \in {"in progress", "pending", "working"}
      THEN [backgroundColour |-> "#fff3cd", fontColour |-> "#856404",
            bold |-> Bool(FALSE), italic |-> Bool(TRUE),
            underline |-> Bool(FALSE)]
      ELSE IF lower \in {"error", "failed", "issue"}
      THEN [backgroundColour |-> "#f8d7da", fontColour |-> "#721c24",
            bold |-> Bool(TRUE), italic |-> Bool(FALSE),
            underline |-> Bool(TRUE)]
      ELSE IF lower \in {"warning", "caution"}
      THEN [backgroundColour |-> "#ffeaa7", fontColour |-> "#6c5ce7",
            bold |-> Bool(TRUE), italic |-> Bool(TRUE),
            underline |-> Bool(FALSE)]
      ELSE [backgroundColour |-> "#f8f9fa", fontColour |-> "#495057",
            bold |-> Bool(FALSE), italic |-> Bool(FALSE),
            underline |-> Bool(FALSE)]

\* the switch of formatByStatus: the locals after it; a local no case
\* assigns stays undefined
statusStyle(status) ==
  LET lower == toLowerCase(status)
  IN  IF lower \in {"complete", "done", "finished"}
      THEN [backgroundColour |-> "#d4edda", fontColour |-> "#155724",
            bold |-> Bool(TRUE), italic |-> Bool(FALSE),
            underline |-> Undefined]
      ELSE IF lower \in {"in progress", "pending", "working"}
      THEN [backgroundColour |-> "#fff3cd", fontColour |-> "#856404",
            bold |-> Bool(FALSE), italic |-> Bool(TRUE),
            underline |-> Undefined]
      ELSE IF lower \in {"error", "failed", "issue"}
      THEN [backgroundColour |-> "#f8d7da", fontColour |-> "#721c24",
            bold |-> Bool(TRUE), italic |-> Undefined,
            underline |-> Bool(TRUE)]
      ELSE IF lower \in {"warning", "caution"}
      THEN [backgroundColour |-> "#ffeaa7", fontColour |-> "#6c5ce7",
            bold |-> Bool(TRUE), italic |-> Bool(TRUE),
            underline |-> Undefined]
      ELSE [backgroundColour |-> "#f8f9fa", fontColour |-> "#495057",
            bold |-> Bool(FALSE), italic |-> Bool(FALSE),
            underline |-> Undefined]

\* status.toLowerCase() throws a TypeError for a status that is no string
formatByStatus(ss, sheetName, cellAddress, status) ==
  IF getSheetByName(ss, sheetName) = 0
  THEN Returns(ss, Str("Error: Sheet not found"))
  ELSE catchError(
         IF cellAddress \notin Cells THEN Throws(ss, RangeNotFound)
         ELSE IF status.t # "string" THEN Throws(ss, "TypeError")
         ELSE LET style == statusStyle(status.s)
                  coloured ==
                    [ss.cells EXCEPT
                       ![cellAddress].background = style.backgroundColour,
                       ![cellAddress].fontColor = style.fontColour]
              IN  Returns([ss EXCEPT !.cells =
                             setEmphasis(coloured, cellAddress, style.bold,
                                         style.italic, style.underline)],
                          Undefined),
         "Status formatted successfully")

(***************************************************************************)
(* Calls of the utility functions, one after the other.  Of results only   *)
(* the last call is kept: the function (fn), the sheet name and the        *)
(* address it was called with (a cell k as the range k .. k), its further  *)
(* argument (arg), and what it returned or threw.                          *)
(***************************************************************************)
\* a cell as a range
Single(k) == [lo |-> k, hi |-> k]

\* the sheet and the cell a function is called with: the first or the last
\* cell of "Sheet1", an address that is not on the sheet, and a sheet that
\* does not exist
CellTargets ==
  {<<"Sheet1", 1>>, <<"Sheet1", NCells>>, <<"Sheet1", BadAddress>>,
   <<"Missing", 1>>}

\* the sheet and the range a function is called with
RangeTargets ==
  {<<"Sheet1", [lo |-> 1, hi |-> NCells]>>, <<"Sheet1", BadRange>>,
   <<"Missing", [lo |-> 1, hi |-> NCells]>>}

\* the names createSheetIfNotExists is called with, and those deleteSheet is
CreateNames == {"Sheet1", "Analysis"}

DeleteNames == {"Analysis", "Missing"}

ColourRules ==
  {[background |-> Str("#ff0000"), font |-> Str("#ffffff")],
   [background |-> Undefined, font |-> Str("#cc0000")]}

\* the conditions of the README, alone and together
Conditions ==
  <<[condition |-> "NUMBER_GREATER_THAN", values |-> <<100>>,
     background |-> "#00ff00", font |-> "#000000"],
    [condition |-> "NUMBER_LESS_THAN", values |-> <<50>>,
     background |-> "#ff0000", font |-> "#ffffff"]>>

ConditionLists == {<<>>, <<Conditions[1]>>, Conditions}

Flags == {Undefined, Bool(TRUE), Bool(FALSE)}

\* style rules with every combination of underline and strikethrough, and
\* one with colours and the other emphasis
StyleRules ==
  {[background |-> Undefined, font |-> Undefined, bold |-> Undefined,
    italic |-> Undefined, underline |-> underline,
    strikethrough |-> strikethrough, fontSize |-> Undefined] :
     underline \in Flags, strikethrough \in Flags}
    \cup {[background |-> Str("#ff0000"), font |-> Str("#ffffff"),
           bold |-> Bool(TRUE), italic |-> Bool(FALSE),
           underline |-> Undefined, strikethrough |-> Undefined,
           fontSize |-> Str("14")]}

\* bold, italic and underline as formatCell is given them
EmphasisFlags ==
  {<<Bool(TRUE), Bool(FALSE), Bool(TRUE)>>, <<Undefined, Undefined, Undefined>>}

\* one status for every case of the switch, and one that is no string
Statuses ==
  {Str("Complete"), Str("Pending"), Str("error"), Str("Warning"), Str("n/a"),
   Null}

\* the values colourCellRandom is given
RandomValues == {Str("Apple"), Null}

InitBook ==
  /\ md5 = MD5
  /\ calls = <<>>
  /\ cells = [k \in Cells |-> Cell(Str("Apple"), DefaultStyle)]
  /\ Quiet

\* the call of fn has done what done holds
Called(fn, sheetName, address, arg, done) ==
  /\ ops < MaxOps
  /\ ops' = ops + 1
  /\ sheets' = done.ss.sheets
  /\ cells' = done.ss.cells
  /\ rules' = done.ss.rules
  /\ results' = <<[fn |-> fn, sheetName |-> sheetName, address |-> address,
                   arg |-> arg, ret |-> done.ret, thrown |-> done.thrown]>>
  /\ UNCHANGED <<md5, calls, macroVars, edits, history>>

RunColourCellByValue(t, colourRules) ==
  Called("colourCellByValue", t[1], Single(t[2]), colourRules,
         colourCellByValue(Book, t[1], t[2], Str("Error"), colourRules))

RunApplyConditionalFormatting(t, conditions) ==
  Called("applyConditionalFormatting", t[1], t[2], conditions,
         applyConditionalFormatting(Book, t[1], t[2], conditions))

RunGetCellValue(t) ==
  Called("getCellValue", t[1], Single(t[2]), Undefined,
         getCellValue(Book, t[1], t[2]))

RunSetRangeValues(t, value) ==
  Called("setRangeValues", t[1], t[2], value,
         setRangeValues(Book, t[1], t[2], [k \in Cells |-> value]))

RunClearFormatting(t) ==
  Called("clearFormatting", t[1], t[2], Undefined,
         clearFormatting(Book, t[1], t[2]))

RunCreateSheetIfNotExists(sheetName) ==
  Called("createSheetIfNotExists", sheetName, BadRange, Undefined,
         createSheetIfNotExists(Book, sheetName))

RunGetAllSheetNames ==
  Called("getAllSheetNames", "", BadRange, Undefined, getAllSheetNames(Book))

RunDeleteSheet(sheetName) ==
  Called("deleteSheet", sheetName, BadRange, Undefined,
         deleteSheet(Book, sheetName))

RunFormatCellByValue(t, styleRules) ==
  Called("formatCellByValue", t[1], Single(t[2]), styleRules,
         formatCellByValue(Book, t[1], t[2], Undefined, styleRules))

RunColourCell(t) ==
  Called("colourCell", t[1], Single(t[2]), Undefined,
         colourCell(Book, t[1], t[2], Str("Test"), Str("#ff0000"),
                    Str("#ffffff")))

RunColourCellFormat(t) ==
  Called("colourCellFormat", t[1], Single(t[2]), Undefined,
         colourCellFormat(Book, t[1], t[2], Str("#ff0000"), Str("#ffffff")))

RunApplyConditionalFormat(t) ==
  Called("applyConditionalFormat", t[1], t[2], Undefined,
         applyConditionalFormat(Book, t[1], t[2], "NUMBER_GREATER_THAN", 100,
                                "#00ff00", "#000000"))

RunGetValue(t) ==
  Called("getValue", t[1], Single(t[2]), Undefined, getValue(Book, t[1], t[2]))

RunClearFormat(t) ==
  Called("clearFormat", t[1], t[2], Undefined, clearFormat(Book, t[1], t[2]))

RunFormatCell(t, flags) ==
  Called("formatCell", t[1], Single(t[2]), flags,
         formatCell(Book, t[1], t[2], Str("Error"), Str("#ff0000"),
                    Str("#ffffff"), flags[1], flags[2], flags[3]))

RunFormatByStatus(t, status) ==
  Called("formatByStatus", t[1], Single(t[2]), status,
         formatByStatus(Book, t[1], t[2], status))

\* colourCellRandom and colourRangeRandom on the cells of "Sheet1", with an
\* address that is on the sheet
RunColourCellRandom(sheetName, cellAddress, value) ==
  LET done == colourCellRandom(cells, sheetName, cellAddress, value, TRUE)
  IN  Called("colourCellRandom", sheetName, Single(cellAddress), value,
             Returns([Book EXCEPT !.cells = done.cells], Str(done.ret)))

RunColourRangeRandom(sheetName, r) ==
  LET done == colourRangeRandom(cells, sheetName, r, TRUE)
  IN  Called("colourRangeRandom", sheetName, r, Undefined,
             Returns([Book EXCEPT !.cells = done.cells], Str(done.ret)))

NextBook ==
  \/ \E t \in CellTargets, colourRules \in ColourRules :
       RunColourCellByValue(t, colourRules)
  \/ \E t \in RangeTargets, conditions \in ConditionLists :
       RunApplyConditionalFormatting(t, conditions)
  \/ \E t \in CellTargets : RunGetCellValue(t)
  \/ \E t \in RangeTargets : RunSetRangeValues(t, Str("Banana"))
  \/ \E t \in RangeTargets : RunClearFormatting(t)
  \/ \E sheetName \in CreateNames : RunCreateSheetIfNotExists(sheetName)
  \/ RunGetAllSheetNames
  \/ \E sheetName \in DeleteNames : RunDeleteSheet(sheetName)
  \/ \E t \in CellTargets, styleRules \in StyleRules :
       RunFormatCellByValue(t, styleRules)
  \/ \E t \in CellTargets : RunColourCell(t)
  \/ \E t \in CellTargets : RunColourCellFormat(t)
  \/ \E t \in RangeTargets : RunApplyConditionalFormat(t)
  \/ \E t \in CellTargets : RunGetValue(t)
  \/ \E t \in RangeTargets : RunClearFormat(t)
  \/ \E t \in CellTargets, flags \in EmphasisFlags : RunFormatCell(t, flags)
  \/ \E t \in CellTargets, status \in Statuses : RunFormatByStatus(t, status)
  \/ \E sheetName \in CallSheetNames, value \in RandomValues :
       RunColourCellRandom(sheetName, 1, value)
  \/ \E sheetName \in CallSheetNames :
       RunColourRangeRandom(sheetName, [lo |-> 1, hi |-> NCells])

SpecBook == InitBook /\ [][NextBook]_vars

(***************************************************************************)
(* Properties.                                                             *)
(***************************************************************************)
EmptyValues == {Null, Undefined, Str("")}

\* the value 0..255 of a signed byte
Unsigned(b) == IF b < 0 THEN b + 256 ELSE b

NoFormatting == [bold |-> FALSE, italic |-> FALSE, underline |-> FALSE]

C2_EmptyValue ==
  \A k \in DOMAIN calls :
    calls[k].value \in EmptyValues =>
      /\ calls[k].backgroundColor = "#FFFFFF"
      /\ calls[k].formatting = NoFormatting
      /\ calls[k].colorDigests = <<>>
      /\ calls[k].formattingDigests = <<>>

C2_Witness ==
  \E j, k \in DOMAIN calls :
    /\ calls[j].value = Null
    /\ calls[k].value = Str("")
    /\ calls[k].backgroundColor = "#FFFFFF"

\* C3: for a non-empty value getColorFromValue returns the palette entry at
\* the low five bits of the first digest byte of String(value), which is
\* always one of the 32 palette entries.
C3_PaletteIndex ==
  \A k \in DOMAIN calls :
    calls[k].value \notin EmptyValues =>
      LET b0 == md5[String(calls[k].value)][1]
      IN  /\ calls[k].backgroundColor = pastelColors[(Unsigned(b0) % 32) + 1]
          /\ calls[k].backgroundColor \in Range(pastelColors)
          /\ calls[k].colorDigests = <<String(calls[k].value)>>

\* a value whose first digest byte is negative, mapped to the last entry
C3_Witness ==
  \E k \in DOMAIN calls :
    /\ calls[k].value = Str("X")
    /\ md5["X"][1] = -1
    /\ calls[k].backgroundColor = "#D1B3FF"

\* C4: getContrastColor returns the dark shade at the low four bits of the
\* first digest byte of the background colour's hex string: the text colour
\* is one of the 16 dark shades, and equal backgrounds get equal text colours.
C4_ContrastColor ==
  /\ \A k \in DOMAIN calls :
       LET b0 == md5[calls[k].backgroundColor][1]
       IN  /\ calls[k].textColor = darkShades[(Unsigned(b0) % 16) + 1]
           /\ calls[k].textColor \in Range(darkShades)
           /\ calls[k].contrastDigests = <<calls[k].backgroundColor>>
  /\ \A j, k \in DOMAIN calls :
       calls[j].backgroundColor = calls[k].backgroundColor =>
         calls[j].textColor = calls[k].textColor

\* two different values with the same background colour
C4_Witness ==
  \E j, k \in DOMAIN calls :
    /\ calls[j].value = Str("Apple")
    /\ calls[k].value = Str("X")
    /\ calls[j].backgroundColor = "#D1B3FF"
    /\ calls[k].backgroundColor = "#D1B3FF"
    /\ calls[k].textColor = "#1F1F1F"

\* C5: for a non-empty value bold = (byte1 < 102), italic = (byte2 < 77) and
\* underline = (byte3 < 64) on the unsigned bytes 1, 2, 3 of the digest, so
\* that 102, 77 and 64 of the 256 byte values yield true: 40%, 30% and 25%
\* to the nearest percent.
C5_Thresholds ==
  /\ \A k \in DOMAIN calls :
       calls[k].value \notin EmptyValues =>
         LET d == md5[String(calls[k].value)]
         IN  calls[k].formatting =
               [bold |-> Unsigned(d[2]) < 102,
                italic |-> Unsigned(d[3]) < 77,
                underline |-> Unsigned(d[4]) < 64]
  \* the counts are the same in every state: one initial state suffices
  /\ (calls = <<>> /\ md5["X"] = <<0, 0, 0, 0>>) =>
       LET nBold ==
             Cardinality({b \in Byte : formattingOf(<<0, b, 0, 0>>).bold})
           nItalic ==
             Cardinality({b \in Byte : formattingOf(<<0, 0, b, 0>>).italic})
           nUnderline ==
             Cardinality({b \in Byte : formattingOf(<<0, 0, 0, b>>).underline})
       IN  /\ nBold = 102 /\ (100 * nBold + 128) \div 256 = 40
           /\ nItalic = 77 /\ (100 * nItalic + 128) \div 256 = 30
           /\ nUnderline = 64 /\ (100 * nUnderline + 128) \div 256 = 25

\* a value whose byte 1 is negative (unsigned 128): not bold
C5_Witness ==
  \E k \in DOMAIN calls :
    /\ calls[k].value = Str("X")
    /\ md5["X"][2] = -128
    /\ calls[k].formatting = [bold |-> FALSE, italic |-> TRUE, underline |-> TRUE]

\* <<hue, saturation, lightness>> of an hsl(...) string
Hsl(colour) == IntsIn(colour, <<>>)

\* hash * 31 + charCode wrapped to 32 bits at every character, in halves
\* (w.hi < 0 is never true: see rollingHash)
RECURSIVE Hash31(_, _)
Hash31(str, w) ==
  IF str = "" \/ w.hi < 0 THEN w
  ELSE LET lo == 31 * w.lo + CharCode[Head(str)]
       IN  Hash31(Tail(str),
             [hi |-> (31 * w.hi + lo \div 65536) % 65536, lo |-> lo % 65536])

\* |h| mod m for the 32-bit hash h of str: |h| = 2^32 - bits when bit 31 is set
AbsHashMod(str, m) ==
  LET w == Hash31(str, [hi |-> 0, lo |-> 0])
      u == ((w.hi % m) * (65536 % m) + w.lo) % m
      two32 == ((65536 % m) * (65536 % m)) % m
  IN  IF w.hi >= 32768 THEN ((two32 + m) - u) % m ELSE u

HashIsMin(str) == Hash31(str, [hi |-> 0, lo |-> 0]) = [hi |-> 32768, lo |-> 0]

HashIsNegative(str) == Hash31(str, [hi |-> 0, lo |-> 0]).hi >= 32768

Returned == {k \in DOMAIN calls : calls[k].error = ""}

\* C6: the hue of the foreground colour of a value is the hue of its
\* background colour plus 180, modulo 360.
C6_Complement ==
  \A k \in Returned :
    Hsl(calls[k].foreground)[1] = (Hsl(calls[k].background)[1] + 180) % 360

\* a background hue of 180 or more: the sum wraps around
C6_Witness ==
  \E k \in Returned :
    /\ calls[k].value = Str("Apple")
    /\ Hsl(calls[k].background)[1] = 258
    /\ Hsl(calls[k].foreground)[1] = 78

\* C7: the background colour has hue = h mod 360 in 0..359, saturation =
\* 70 + (h mod 30) in 70..99 and lightness = 45 + (h mod 20) in 45..64, h
\* being the absolute value of the 32-bit rolling hash, also when the hash
\* is -2^31.
C7_Background ==
  \A k \in Returned :
    LET str == String(calls[k].value)
        hsl == Hsl(calls[k].background)
    IN  /\ Len(hsl) = 3
        /\ hsl[1] = AbsHashMod(str, 360) /\ hsl[1] \in 0 .. 359
        /\ hsl[2] = 70 + AbsHashMod(str, 30) /\ hsl[2] \in 70 .. 99
        /\ hsl[3] = 45 + AbsHashMod(str, 20) /\ hsl[3] \in 45 .. 64

\* the string whose hash wraps to -2^31
C7_Witness ==
  \E k \in Returned :
    /\ HashIsMin(String(calls[k].value))
    /\ calls[k].background = "hsl(128, 78%, 53%)"

\* C8: the foreground colour has saturation = 80 + (h mod 20) in 80..99 and
\* lightness 15 when h is even and 85 when h is odd, and no other lightness.
C8_Foreground ==
  \A k \in Returned :
    LET str == String(calls[k].value)
        hsl == Hsl(calls[k].foreground)
    IN  /\ Len(hsl) = 3
        /\ hsl[2] = 80 + AbsHashMod(str, 20) /\ hsl[2] \in 80 .. 99
        /\ hsl[3] = IF AbsHashMod(str, 2) = 0 THEN 15 ELSE 85

\* a negative odd hash (lightness 85) and a positive even one (lightness 15)
C8_Witness ==
  \E j, k \in Returned :
    /\ HashIsNegative(String(calls[j].value))
    /\ Hsl(calls[j].foreground)[3] = 85
    /\ ~HashIsNegative(String(calls[k].value))
    /\ Hsl(calls[k].foreground)[3] = 15

\* a step of the loop of a macro: the edits of the user leave pc and i alone
MacroStep == <<pc, i>>' # <<pc, i>>

\* C9: randomColour and randomFormat leave an empty cell with a white
\* background and unstyled text: no palette text colour is written to it and
\* it gets no emphasis.
C9_EmptyCellUnstyled ==
  [][/\ (pc = "colour" /\ MacroStep /\ values[i] \in EmptyValues) =>
          /\ cells'[i].background = "#FFFFFF"
          /\ cells'[i].fontColor \notin Range(darkShades)
     /\ (pc = "format" /\ MacroStep /\ values[i] \in EmptyValues) =>
          /\ cells'[i].fontWeight = "normal"
          /\ cells'[i].fontStyle = "normal"
          /\ cells'[i].fontLine = "none"]_vars

\* C10: no caller hands null, undefined or the empty string to
\* generateColourFromValue.
C10_CallersBypass ==
  \A k \in DOMAIN results :
    \A n \in DOMAIN results[k].generated :
      results[k].generated[n] \notin EmptyValues

\* the style attributes a macro sets on every cell of the range
StyleAttributes(m) ==
  IF m = "randomFormat"
  THEN {"background", "fontColor", "fontWeight", "fontStyle", "fontLine"}
  ELSE {"background", "fontColor"}

\* C11: when a macro writes to a cell, every style attribute the macro sets
\* on that cell has been computed: the attributes computed before the step
\* and those the step itself computes before its first write.
C11_ComputedBeforeWritten ==
  [][/\ (pc = "colour" /\ MacroStep) =>
          StyleAttributes(macro) \subseteq
            computed(i) \cup {"background", "fontColor"}
     /\ (pc = "format" /\ MacroStep) =>
          StyleAttributes(macro) \subseteq
            computed(i) \cup {"fontWeight", "fontStyle", "fontLine"}]_vars

\* C12: two values given to generateColourFromValue have equal rolling
\* hashes if and only if their canonical strings are equal.
C12_HashEquality ==
  \A j, k \in Returned :
    (calls[j].rolled = calls[k].rolled) <=>
      (String(calls[j].value) = String(calls[k].value))

\* the byte values next to the cutoffs and to the sign change, and every
\* sixteenth value in between
ByteSamples ==
  {-128, -1, 0, 63, 64, 76, 77, 101, 102, 127} \cup {16 * n : n \in -8 .. 7}

\* C13: the bold decision depends only on digest byte 1, the italic one only
\* on byte 2 and the underline one only on byte 3, none on byte 0: whatever
\* value one byte of the digest is changed to, the decisions of the other
\* bytes stay as they were derived; and each of the 8 combinations of the
\* three decisions is the outcome for some digest.  Every derivation is the
\* first call of some behaviour, and the digests are the same in every state.
C13_Independence ==
  /\ (Len(calls) = 1 /\ calls[1].value = Str("X")) =>
       \A p \in 1 .. 4, b \in ByteSamples :
         LET changed == formattingOf([md5["X"] EXCEPT ![p] = b])
         IN  /\ p # 2 => changed.bold = calls[1].formatting.bold
             /\ p # 3 => changed.italic = calls[1].formatting.italic
             /\ p # 4 => changed.underline = calls[1].formatting.underline
  /\ (calls = <<>> /\ md5["X"] = <<0, 0, 0, 0>>) =>
       \A combination \in [bold : BOOLEAN, italic : BOOLEAN,
                            underline : BOOLEAN] :
         \E d \in [1 .. 4 -> {0, -1}] : formattingOf(d) = combination

\* bold alone: byte 1 is below its cutoff, bytes 2 and 3 are not
C13_Witness ==
  /\ Len(calls) = 1
  /\ calls[1].value = Str("X")
  /\ md5["X"] = <<-1, 0, -1, -1>>
  /\ calls[1].formatting = [bold |-> TRUE, italic |-> FALSE, underline |-> FALSE]

\* C14: for every first digest byte -128..127 the background index
\* byte & 0x1F lies in 0..31, so that the colour derived is an entry of the
\* palette, and every index 0..31 is the index of some byte value.  The
\* index of a byte is the same in every state: one initial state suffices
\* for the second half.
C14_IndexRange ==
  /\ \A k \in DOMAIN calls :
       calls[k].value = Str("X") =>
         /\ colorIndexOf(md5["X"]) \in 0 .. 31
         /\ calls[k].backgroundColor = pastelColors[colorIndexOf(md5["X"]) + 1]
  /\ (calls = <<>> /\ md5["X"] = <<0, 0, 0, 0>>) =>
       \A n \in 0 .. 31 : \E b \in Byte : colorIndexOf(<<b, 0, 0, 0>>) = n

\* the most negative byte: index 0, the first entry of the palette
C14_Witness ==
  \E k \in DOMAIN calls :
    /\ calls[k].value = Str("X")
    /\ md5["X"][1] = -128
    /\ calls[k].backgroundColor = "#FFB3BA"

\* the number x is the absolute value of the signed 32-bit integer of bits w:
\* w itself when bit 31 is clear, and otherwise the magnitude with
\* w + x = 2^32
IsAbsOf(x, w) ==
  /\ ~x.neg
  /\ IF w.hi < 32768
     THEN x.hi = w.hi /\ x.lo = w.lo
     ELSE /\ (w.lo + x.lo) % 65536 = 0
          /\ w.hi + x.hi + (w.lo + x.lo) \div 65536 = 65536

\* C15: for every string the hash of generateColourFromValue, computed per
\* character as ((hash << 5) - hash) + charCode and hash & hash and finally
\* passed to Math.abs, is the rolling hash hash * 31 + charCode wrapped to
\* signed 32 bits at every step, taken as absolute value.
C15_Hash31 ==
  \A k \in Returned :
    LET w == Hash31(String(calls[k].value), [hi |-> 0, lo |-> 0])
    IN  /\ calls[k].rolled = w
        /\ IsAbsOf(calls[k].hash, w)

\* a string of six characters whose hash wrapped to a negative number
C15_Witness ==
  \E k \in Returned :
    /\ calls[k].value = Str("zzzzzz")
    /\ calls[k].rolled.hi >= 32768
    /\ calls[k].hash.hi < 32768

\* the style bundle of a cell
Bundle(cell) ==
  <<cell.background, cell.fontColor, cell.fontWeight, cell.fontStyle,
    cell.fontLine>>

\* C16: when randomFormat completes on a range that was not edited, the
\* style bundle of each of its cells is determined by the value of the cell,
\* whatever style the cell had before: cells of equal values end with the
\* same bundle.  With no edit at all so far there was none during the run;
\* the initial states hold every sheet an earlier edit leads to.
C16_StyleByValue ==
  [][(pc = "format" /\ pc' = "idle" /\ edits = 0) =>
       \A j, k \in range.lo .. range.hi :
         cells'[j].value = cells'[k].value =>
           Bundle(cells'[j]) = Bundle(cells'[k])]_vars

\* randomFormat has completed on two cells holding 'Apple'
C16_Witness ==
  /\ pc = "idle" /\ macro = "randomFormat" /\ edits = 0
  /\ range = [lo |-> 1, hi |-> 2]
  /\ cells[1].value = Str("Apple") /\ cells[2].value = Str("Apple")
  /\ Bundle(cells[1]) = <<"#D1B3FF", "#1F1F1F", "bold", "normal", "none">>
  /\ Bundle(cells[2]) = Bundle(cells[1])

\* C17: when randomColour or randomFormat is run again on the same range
\* right after it has completed there, with no edit since the first run
\* started, no step of the second run changes the sheet: the sheet after the
\* two runs is the sheet after the first.
C17_Idempotent ==
  [][(history = "again" /\ MacroStep) => cells' = cells]_vars

\* the second run of randomFormat on two cells has reached its last cell
C17_Witness ==
  /\ history = "again" /\ macro = "randomFormat" /\ pc = "format"
  /\ range = [lo |-> 1, hi |-> 2] /\ i = 2
  /\ cells[1].value = Str("Apple") /\ cells[1].fontWeight = "bold"
  /\ cells[2].value = Str("Banana") /\ cells[2].background = "#FFD1BA"

\* the cells of the running macro's range
InRange == range.lo .. range.hi

\* C18: the style a macro gives a cell depends on the value of that cell
\* alone, so that the cells of the range may be processed in any order: at
\* every point of a loop, the loop body for a cell changes that cell only,
\* and the bodies for two cells yield the same sheet in either order.
C18_OrderIndependent ==
  /\ pc = "colour" =>
       /\ \A j, k \in InRange :
            j < k =>
              randomColourBody(randomColourBody(cells, values, j), values, k)
                = randomColourBody(randomColourBody(cells, values, k), values, j)
       /\ \A k \in InRange :
            \A n \in Cells \ {k} : randomColourBody(cells, values, k)[n] = cells[n]
  /\ pc = "format" =>
       /\ \A j, k \in InRange :
            j < k =>
              randomFormatBody(randomFormatBody(cells, values, j), values, k)
                = randomFormatBody(randomFormatBody(cells, values, k), values, j)
       /\ \A k \in InRange :
            \A n \in Cells \ {k} : randomFormatBody(cells, values, k)[n] = cells[n]

\* randomColour has coloured the first of two cells of different values
C18_Witness ==
  /\ pc = "colour" /\ range = [lo |-> 1, hi |-> 2] /\ i = 2
  /\ values[1] = Str("Apple") /\ values[2] = Str("Banana")
  /\ cells[1].background = "#D1B3FF"
  /\ cells[2].background = "#ffffff"

\* C19: two distinct non-empty values get distinct background colours.
C19_DistinctColours ==
  \A j, k \in DOMAIN calls :
    (/\ calls[j].value \notin EmptyValues
     /\ calls[k].value \notin EmptyValues
     /\ calls[j].value # calls[k].value) =>
      calls[j].backgroundColor # calls[k].backgroundColor

\* the values with no sensible string form
Unstringable == {Obj}

\* C20: a value with no sensible string form is rejected with an
\* InvalidInputKind failure before anything is hashed, so that no colour is
\* derived from it; and undefined is never hashed.
C20_InvalidInputKind ==
  \A k \in DOMAIN calls :
    /\ calls[k].value \in Unstringable =>
         /\ calls[k].error = "InvalidInputKind"
         /\ calls[k].background = "" /\ calls[k].foreground = ""
    /\ calls[k].value = Undefined =>
         calls[k].background = "" /\ calls[k].foreground = ""

\* str.startsWith(prefix)
StartsWith(str, prefix) ==
  Len(str) >= Len(prefix) /\ SubSeq(str, 1, Len(prefix)) = prefix

\* the custom functions that wrap their work in try and catch
Wrappers ==
  {"colourCell", "colourCellFormat", "applyConditionalFormat", "getValue",
   "clearFormat", "formatCell", "formatByStatus", "colourCellRandom",
   "colourRangeRandom"}

\* the call r, made on the spreadsheet as it is now, runs into an error: the
\* sheet is missing, the address is not on the sheet, or a method is called
\* on a value that has none
RunsIntoError(r) ==
  \/ getSheetByName(Book, r.sheetName) = 0
  \/ r.address \notin Ranges
  \/ r.fn = "formatByStatus" /\ r.arg.t # "string"
  \/ r.fn = "colourCellRandom" /\ r.arg \in {Null, Undefined}

\* C21: a call of a custom-function wrapper never throws, and when the sheet
\* is missing or the host or the wrapped code raises an error, the call
\* returns a string that starts with "Error: ".
C21_WrappersReturnErrors ==
  [][(ops' = ops + 1 /\ results'[1].fn \in Wrappers) =>
       LET r == results'[1]
       IN  /\ r.thrown = ""
           /\ RunsIntoError(r) =>
                r.ret.t = "string" /\ StartsWith(r.ret.s, "Error: ")]_vars

\* colourCell on an address that is not on the sheet: the error of the host
\* comes back as a string
C21_Witness ==
  /\ results # <<>>
  /\ ops > 0
  /\ results[1].fn = "colourCell"
  /\ results[1].sheetName = "Sheet1"
  /\ results[1].address = Single(BadAddress)
  /\ results[1].thrown = ""
  /\ results[1].ret = Str("Error: Range not found")

\* C22: once applyConditionalFormatting has returned, the sheet carries a
\* conditional format rule for every condition of the array it was given.
C22_EveryConditionInEffect ==
  (ops > 0 /\ results[1].fn = "applyConditionalFormatting"
     /\ results[1].thrown = "") =>
    \A k \in DOMAIN results[1].arg :
       formatRule(results[1].address, results[1].arg[k]) \in Range(rules)

\* C23: once formatCellByValue has returned, the cell is underlined exactly
\* when styleRules.underline is true and struck through exactly when
\* styleRules.strikethrough is true.
C23_UnderlineAndStrikethrough ==
  (ops > 0 /\ results[1].fn = "formatCellByValue" /\ results[1].thrown = "") =>
    LET cell == cells[results[1].address.lo]
        styleRules == results[1].arg
    IN  /\ cell.fontLine = "underline" <=> styleRules.underline = Bool(TRUE)
        /\ cell.fontLine = "line-through"
             <=> styleRules.strikethrough = Bool(TRUE)

\* the utility functions that throw when the sheet is missing
Throwers ==
  {"colourCellByValue", "getCellValue", "setRangeValues", "clearFormatting",
   "applyConditionalFormatting", "deleteSheet"}

\* C24: a call of colourCellByValue, getCellValue, setRangeValues,
\* clearFormatting, applyConditionalFormatting or deleteSheet with a name that
\* no sheet carries throws the error 'Sheet "<name>" not found' and leaves the
\* sheets, the cells and the rules of the spreadsheet as they were.
C24_SheetNotFound ==
  [][(ops' = ops + 1 /\ results'[1].fn \in Throwers
        /\ getSheetByName(Book, results'[1].sheetName) = 0) =>
       /\ results'[1].thrown = NotFound(results'[1].sheetName)
       /\ <<sheets, cells, rules>>' = <<sheets, cells, rules>>]_vars

\* setRangeValues on a missing sheet, after an earlier call has changed the
\* spreadsheet
C24_Witness ==
  /\ ops = 2
  /\ results[1].fn = "setRangeValues"
  /\ results[1].sheetName = "Missing"
  /\ results[1].thrown = "Sheet \"Missing\" not found"
  /\ cells[1].background = "#ff0000"
  /\ cells[1].value = Str("Error")

\* no two sheets of the spreadsheet carry the same name
OneSheetPerName ==
  \A p, q \in DOMAIN sheets : sheets[p] = sheets[q] => p = q

\* C25: there is never more than one sheet of a name, and a call of
\* createSheetIfNotExists inserts a sheet only when no sheet carries the name;
\* when one does, the call returns that sheet and leaves the spreadsheet as
\* it was.
C25_CreateOnlyIfMissing ==
  /\ []OneSheetPerName
  /\ [][(ops' = ops + 1 /\ results'[1].fn = "createSheetIfNotExists") =>
          LET sheetName == results'[1].sheetName
              found == getSheetByName(Book, sheetName)
          IN  IF found # 0
              THEN /\ <<sheets, cells, rules>>' = <<sheets, cells, rules>>
                   /\ results'[1].ret = Sheet(sheetName, found)
              ELSE /\ sheets' = Append(sheets, sheetName)
                   /\ <<cells, rules>>' = <<cells, rules>>
                   /\ results'[1].ret = Sheet(sheetName, Len(sheets'))]_vars

\* createSheetIfNotExists has inserted "Analysis" and is then called for
\* "Sheet1", which exists
C25_Witness ==
  /\ ops = 2
  /\ results[1].fn = "createSheetIfNotExists"
  /\ results[1].sheetName = "Sheet1"
  /\ results[1].ret = Sheet("Sheet1", 1)
  /\ sheets = <<"Sheet1", "Analysis">>

\* the emphasis of a cell
Emphasis(cell) == <<cell.fontWeight, cell.fontStyle, cell.fontLine>>

\* the emphasis a cell carries once randomFormat has written the decisions
EmphasisOf(formatting) ==
  <<IF formatting.bold THEN "bold" ELSE "normal",
    IF formatting.italic THEN "italic" ELSE "normal",
    IF formatting.underline THEN "underline" ELSE "none">>

\* C26: randomFormat has written the colours of every cell of the range, from
\* the values randomColour read, when it reads the values again, and it
\* writes no emphasis before that; when it returns, every cell of the range
\* carries the colours of the value read first and the emphasis of the value
\* it holds then, so a cell edited between the two reads has the colours of
\* its old value and the emphasis of its new one.
C26_ColoursThenEmphasis ==
  [][/\ (macro = "randomFormat" /\ pc = "colour" /\ pc' = "read") =>
          \A k \in range.lo .. range.hi :
             /\ cells'[k].background = getColorFromValue(colourValues[k]).ret
             /\ cells'[k].fontColor
                  = getContrastColor(cells'[k].background).ret
     /\ (macro = "randomFormat" /\ pc \in {"colour", "read"}) =>
          \A k \in Cells : Emphasis(cells'[k]) = Emphasis(cells[k])
     /\ (pc = "format" /\ pc' = "idle") =>
          \A k \in range.lo .. range.hi :
             /\ cells'[k].background = getColorFromValue(colourValues[k]).ret
             /\ cells'[k].fontColor
                  = getContrastColor(cells'[k].background).ret
             /\ Emphasis(cells'[k])
                  = EmphasisOf(getRandomFormatting(cells'[k].value).ret)]_vars

\* randomFormat has returned on a range from the first cell on; that cell
\* held 'Apple' at the first read and 'Banana' at the second: it has the
\* colours of 'Apple' and, as 'Banana', no emphasis ('Apple' is bold)
C26_Witness ==
  /\ pc = "idle" /\ macro = "randomFormat" /\ range.lo = 1
  /\ cells[1].value = Str("Banana")
  /\ cells[1].background = "#D1B3FF"
  /\ cells[1].fontColor = "#1F1F1F"
  /\ Emphasis(cells[1]) = <<"normal", "normal", "none">>

\* C27: no step of randomColour, from its start to its return, changes the
\* value, the font weight, the font style, the font line or the font size of
\* any cell: the emphasis an earlier randomFormat wrote stays, also on a cell
\* whose value has changed since.
C27_RandomColourFrame ==
  [][((pc = "idle" /\ pc' = "colour") \/ pc = "colour") =>
       \A k \in Cells :
          /\ cells'[k].value = cells[k].value
          /\ Emphasis(cells'[k]) = Emphasis(cells[k])
          /\ cells'[k].fontSize = cells[k].fontSize]_vars

\* randomColour has returned on a range from the first cell on; the cell
\* holds 'Banana' and has its colours, and still the emphasis randomFormat
\* gave it when it held 'Apple'
C27_Witness ==
  /\ pc = "idle" /\ macro = "randomColour" /\ range.lo = 1
  /\ cells[1].value = Str("Banana")
  /\ cells[1].background = "#FFD1BA"
  /\ Emphasis(cells[1]) = <<"bold", "normal", "none">>

\* C28: getColorFromValue returns '#FFFFFF' exactly for null, undefined and
\* the empty string; no entry of the palette is '#FFFFFF', so 0, false, a
\* single space and every other value get a colour that is not white.
C28_WhiteIffEmpty ==
  /\ \A p \in DOMAIN pastelColors : pastelColors[p] # "#FFFFFF"
  /\ \A k \in DOMAIN calls :
       calls[k].backgroundColor = "#FFFFFF" <=> calls[k].value \in EmptyValues

\* 0 and a single space get palette colours
C28_Witness ==
  \E j, k \in DOMAIN calls :
    /\ calls[j].value = Num(0)
    /\ calls[j].backgroundColor = "#FFBAC9"
    /\ calls[k].value = Str(" ")
    /\ calls[k].backgroundColor = "#FFE3BA"

\* the number n >= 0 as the model holds a hash
NumOf(n) == [neg |-> FALSE, hi |-> n \div 65536, lo |-> n % 65536]

\* how many times 360 is added to a remainder: the largest keeps the sum
\* below 2^31
Turns == {1, 2, 183, 5965231}

\* C29: the background and the foreground colour of generateColourFromValue
\* are functions of the hash modulo 360: two values whose hashes are
\* congruent modulo 360 get the same pair of colours, and a hash gets the
\* pair of its remainder, so that there are at most 360 pairs.
C29_FunctionOfHue ==
  /\ \A j, k \in Returned :
       NumRem(calls[j].hash, 360) = NumRem(calls[k].hash, 360) =>
         /\ calls[j].background = calls[k].background
         /\ calls[j].foreground = calls[k].foreground
  /\ calls = <<>> =>
       \A r \in 0 .. 359, turns \in Turns :
          /\ backgroundColour(NumOf(r + 360 * turns))
               = backgroundColour(NumOf(r))
          /\ foregroundColour(NumOf(r + 360 * turns))
               = foregroundColour(NumOf(r))

\* 'a' (hash 97) and '01' (hash 1537) get the same pair
C29_Witness ==
  \E j, k \in Returned :
    /\ calls[j].value = Str("a") /\ calls[k].value = Str("01")
    /\ calls[j].hash = NumOf(97) /\ calls[k].hash = NumOf(1537)
    /\ calls[j].background = "hsl(97, 77%, 62%)"
    /\ calls[k].background = "hsl(97, 77%, 62%)"
    /\ calls[j].foreground = "hsl(277, 97%, 85%)"
    /\ calls[k].foreground = "hsl(277, 97%, 85%)"

\* C30: a call of formatByStatus that formats the cell leaves the font style
\* of the cell as it was when the status is error, failed or issue, and
\* leaves the font line as it was for every other status; the emphasis after
\* the call is not decided by the status alone.
C30_StatusKeepsEmphasis ==
  [][(ops' = ops + 1 /\ results'[1].fn = "formatByStatus"
        /\ results'[1].ret = Str("Status formatted successfully")) =>
       LET k == results'[1].address.lo
           status == toLowerCase(results'[1].arg.s)
       IN  IF status \in {"error", "failed", "issue"}
           THEN cells'[k].fontStyle = cells[k].fontStyle
           ELSE cells'[k].fontLine = cells[k].fontLine]_vars

\* formatByStatus for 'error' on a cell that an earlier formatByStatus, for
\* 'Pending' or 'Warning', made italic: the cell is still italic
C30_Witness ==
  /\ ops = 2
  /\ results[1].fn = "formatByStatus"
  /\ results[1].arg = Str("error")
  /\ results[1].address = Single(1)
  /\ cells[1].background = "#f8d7da"
  /\ Emphasis(cells[1]) = <<"bold", "italic", "underline">>

====
